---- MODULE Spec2Model ----
(***************************************************************************)
(* Model of react-native-global-store (src/index.tsx).                     *)
(*                                                                         *)
(* GlobalStoreProvider is a React function component with two useState     *)
(* hooks (globalState, isLoading), a memoised setter whose updater merges  *)
(* a partial state, persists the whitelisted subset through AsyncStorage   *)
(* and calls an optional callback, and an effect that loads the persisted  *)
(* data.  The model keeps React's update queue explicit: an updater passed *)
(* to updateState runs either eagerly inside the call (only possible when  *)
(* the component has no pending update) or later, during the next render.  *)
(***************************************************************************)
EXTENDS Integers, Sequences, FiniteSets, TLC

\* ------------------------------------------------------------------ bounds
MaxUpdates == 3      \* runs of the load effect plus setGlobalState calls by consumers
MaxInFlight == 2     \* setItem calls in flight at once

\* ------------------------------------------------------------- value sets
Undefined == "undefined"
EmptyObject == [k \in {} |-> "1"]

Merge(a, b) ==
  [k \in (DOMAIN a) \cup (DOMAIN b) |-> IF k \in DOMAIN b THEN b[k] ELSE a[k]]

\* F(v) with v computed once, as a const declaration computes its value
Bind(v, F(_)) == CHOOSE out \in { F(x) : x \in {v} } : TRUE

DefaultStorageKey == "GlobalStateProvider"
\* the storageKey props parents pass: the prop is left at its default
StorageKeys == {DefaultStorageKey}

\* objects a parent may pass as the initialState prop
InitialStates == { EmptyObject, ("a" :> "1" @@ "b" :> "2") }
\* setter calls consumers make: a partial state, with or without a callback
ConsumerCallChoices ==
  { [partialState |-> ("a" :> "2"), callback |-> TRUE],
    [partialState |-> ("b" :> "1"), callback |-> FALSE],
    [partialState |-> ("a" :> Undefined), callback |-> TRUE] }
\* persistedKeys props
PersistedKeysChoices == { <<>>, <<"a", "c">> }

\* ------------------------------------------------------------ JSON texts
\* A text held by AsyncStorage: the key/value pairs of a JSON object in
\* order, or a text JSON.parse rejects.  NoItem is getItem's null.
NoItem == [kind |-> "null", pairs |-> <<>>]
Malformed == [kind |-> "malformed", pairs |-> <<>>]
JSONText(pairs) == [kind |-> "json", pairs |-> pairs]

\* JSON.stringify of an object given as its ordered <<key, value>> entries:
\* properties whose value is undefined are left out.
JSONstringify(entries) ==
  JSONText(SelectSeq(entries, LAMBDA e : e[2] # Undefined))

RECURSIVE FromEntries(_)
FromEntries(entries) ==
  IF entries = <<>> THEN EmptyObject
  ELSE Merge(FromEntries(SubSeq(entries, 1, Len(entries) - 1)),
             entries[Len(entries)][1] :> entries[Len(entries)][2])

\* JSON.parse: throws on a malformed text
JSONparse(text) ==
  IF text.kind = "json" THEN [ok |-> TRUE, value |-> FromEntries(text.pairs)]
  ELSE [ok |-> FALSE, value |-> EmptyObject]

\* texts that may be in storage when the provider mounts
StoredTexts == { NoItem, Malformed, JSONText(<< <<"a", "5">> >>) }

\* ------------------------------------------------------------------ state
VARIABLES
  props,          \* props of the latest render: initialState, persistedKeys, storageKey,
                  \* and which of them the parent leaves out
  globalState,    \* useState value of the latest render
  isLoading,      \* useState value of the latest render
  queue,          \* updates given to updateState and not yet rendered
  pendingLoading, \* a setLoading(false) update is waiting for a render
  rendered,       \* what the latest render returned: "loadingUI" or "children"
  reads,          \* AsyncStorage.getItem calls in flight, one per run of the effect
  writes,         \* AsyncStorage.setItem calls in flight, in issue order
  storage,        \* AsyncStorage contents by key
  loads,          \* history: runs of the load effect so far
  mount,          \* history: the props of the mount and the text then in storage
  resolved,       \* history: ids of the loads that resolved
  mountLoad,      \* history: how the load of the mount resolved, [outcome, text]
  ncalls,         \* history: setGlobalState calls made by consumers
  shadow,         \* history: merge, in call order, of every partial state given to the setter
  consumerMerge,  \* history: merge, in call order, of the consumers' partial states
  cbLog,          \* callbacks invoked by the latest step, [arg, expect, batched, sync]
  memo,           \* what the render made by the latest step kept of the objects of
                  \* the render before it; NoRender when the step rendered nothing,
                  \* Unobserved in the specifications that do not follow identities
  latestWrite,    \* history: what became of the most recently issued setItem
  console,        \* history: the messages given to console.error so far
  failed,         \* history: the failures so far, "read", "parse", "write"
  uncaught        \* history: errors that escaped a handler (thrown or unhandled rejection)

vars == << props, globalState, isLoading, queue, pendingLoading, rendered, reads,
           writes, storage, loads, mount, resolved, mountLoad, ncalls, shadow,
           consumerMerge, cbLog, memo, latestWrite, console, failed, uncaught >>

\* ----------------------------------------------------------- persistData
\* the entries of an object over the keys the model uses
KeyOrder == <<"a", "b", "c">>
ObjectEntries(obj) ==
  LET present == SelectSeq(KeyOrder, LAMBDA k : k \in DOMAIN obj)
  IN [i \in DOMAIN present |-> <<present[i], obj[present[i]]>>]

\* variant: every key of updatedState is persisted, whitelisted or not
dataToPersist_Unfiltered(updatedState, persistedKeys) == ObjectEntries(updatedState)

\* dataToPersist as its ordered entries: the whitelisted keys that are `in`
\* updatedState, in whitelist order (a repeated key is assigned twice and
\* keeps its first position).
RECURSIVE dataToPersist(_, _)
dataToPersist(updatedState, persistedKeys) ==
  IF persistedKeys = <<>> THEN <<>>
  ELSE LET n    == Len(persistedKeys)
           key  == persistedKeys[n]
           rest == dataToPersist(updatedState, SubSeq(persistedKeys, 1, n - 1))
       IN IF key \in DOMAIN updatedState /\ \A i \in 1..Len(rest) : rest[i][1] # key
          THEN Append(rest, <<key, updatedState[key]>>)
          ELSE rest

\* variant: nothing is written unless every whitelisted key is in the state
persistData_AllKeysRequired(updatedState, persistedKeys, storageKey) ==
  IF /\ Len(dataToPersist(updatedState, persistedKeys)) > 0
     /\ \A i \in DOMAIN persistedKeys : persistedKeys[i] \in DOMAIN updatedState
  THEN << [ storageKey |-> storageKey,
            payload    |-> JSONstringify(dataToPersist(updatedState, persistedKeys)) ] >>
  ELSE <<>>

\* persistData up to its await: the setItem calls it issues (none or one).
persistData(updatedState, persistedKeys, storageKey) ==
  LET data == dataToPersist(updatedState, persistedKeys)
  IN IF Len(data) > 0
     THEN << [storageKey |-> storageKey, payload |-> JSONstringify(data)] >>
     ELSE <<>>

\* variant: an empty whitelist persists the whole state
persistIfWhitelisted_Always(updatedState, persistedKeys, storageKey) ==
  IF Len(persistedKeys) > 0
  THEN persistData(updatedState, persistedKeys, storageKey)
  ELSE << [ storageKey |-> storageKey,
            payload    |-> JSONstringify(ObjectEntries(updatedState)) ] >>

\* what the updater persists (the guard on persistedKeys.length, then persistData)
persistIfWhitelisted(updatedState, persistedKeys, storageKey) ==
  IF Len(persistedKeys) > 0
  THEN persistData(updatedState, persistedKeys, storageKey)
  ELSE <<>>

\* persistData after its await, when setItem rejected: catch and log
PersistErrorMessage == "ReactNativeGlobalStore: Data Persist Error"
RehydrationFailedMessage == "ReactNativeGlobalStore: Rehydration Failed!"

\* variant: no catch around setItem, the rejection is left unhandled
persistCatch_Unhandled(log) == [console |-> log.console, uncaught |-> TRUE]

persistCatch(log) ==
  [ console  |-> log.console \cup {PersistErrorMessage},
    uncaught |-> log.uncaught ]

\* ------------------------------------------------------- setGlobalState
\* variant: the callback gets the persisted subset
callbackArgument_Persisted(prevState, updatedState, persistedKeys) ==
  FromEntries(dataToPersist(updatedState, persistedKeys))

\* the argument given to the optional callback
callbackArgument(prevState, updatedState, persistedKeys) == updatedState

\* The updater handed to updateState: merge, persist, callback.
\* u is the queued update; sync tells whether it runs inside the setter call.
\* Each setItem call it issues is filed with history of the setter call:
\* expect (see setGlobalState) and the whitelist of the closure.
updater(prevState, u, sync) ==
  LET updatedState == Merge(prevState, u.partialState)
      issued       == persistIfWhitelisted(updatedState, u.persistedKeys, u.storageKey)
  IN [ state     |-> updatedState,
       writes    |-> [ i \in DOMAIN issued |->
                         [ storageKey |-> issued[i].storageKey,
                           payload    |-> issued[i].payload,
                           expect     |-> u.expect,
                           whitelist  |-> u.persistedKeys ] ],
       callbacks |-> IF u.callback
                     THEN << [ expect |-> u.expect, batched |-> u.batched,
                               arg  |-> callbackArgument(prevState, updatedState,
                                                         u.persistedKeys),
                               sync |-> sync ] >>
                     ELSE <<>> ]

AsSet(seq) == {seq[i] : i \in 1..Len(seq)}

NoRender == [ prevReady |-> FALSE, globalState |-> "none", setGlobalState |-> "none",
              contextValue |-> "none" ]
Unobserved == [ prevReady |-> FALSE, globalState |-> "unobserved",
                setGlobalState |-> "unobserved", contextValue |-> "unobserved" ]
\* memo at a step that renders nothing
Idle(m) == IF m = Unobserved THEN Unobserved ELSE NoRender

\* The component as one record, so that handlers compose.
Component ==
  [ props |-> props, globalState |-> globalState, isLoading |-> isLoading,
    queue |-> queue, pendingLoading |-> pendingLoading, rendered |-> rendered,
    reads |-> reads, writes |-> writes, loads |-> loads, cbLog |-> {},
    memo |-> Idle(memo) ]

\* React computes an update eagerly only when the component has no pending
\* update; even then it may defer it to the render.
CanBeEager(c) == c.queue = <<>> /\ ~c.pendingLoading

\* setGlobalState(partialState, callback) through the closure that captured
\* persistedKeys and storageKey.  History kept with the update: expect, the
\* merge of all partial states given to the setter up to this call, and
\* batched, whether another update was pending when the call was made.
setGlobalState(c, partialState, callback, persistedKeys, storageKey, eager, expect) ==
  LET u == [ partialState |-> partialState, callback |-> callback,
             persistedKeys |-> persistedKeys, storageKey |-> storageKey,
             expect |-> expect, batched |-> ~CanBeEager(c),
             hasEagerState |-> FALSE, eagerState |-> EmptyObject ]
  IN IF eager
     THEN LET r == updater(c.globalState, u, TRUE)
          IN [c EXCEPT !.queue  = Append(@, [u EXCEPT !.hasEagerState = TRUE,
                                                      !.eagerState = r.state]),
                       !.writes = @ \o r.writes,
                       !.cbLog  = @ \cup AsSet(r.callbacks)]
     ELSE [c EXCEPT !.queue = Append(@, u)]

\* ----------------------------------------------------------------- render
\* React applies the queued updates in order; an update computed eagerly
\* contributes its stored state, the others run their updater now.
RECURSIVE processQueue(_, _)
processQueue(state, q) ==
  IF q = <<>> THEN [state |-> state, writes |-> <<>>, callbacks |-> <<>>]
  ELSE LET u == Head(q)
       IN Bind(IF u.hasEagerState
               THEN [state |-> u.eagerState, writes |-> <<>>, callbacks |-> <<>>]
               ELSE updater(state, u, FALSE),
               LAMBDA r :
                 Bind(processQueue(r.state, Tail(q)),
                      LAMBDA rest :
                        [ state     |-> rest.state,
                          writes    |-> r.writes \o rest.writes,
                          callbacks |-> r.callbacks \o rest.callbacks ]))

\* variant: the provider starts out not loading
InitialLoading_False == FALSE
\* variant: the load toggles the flag instead of clearing it
applyLoading_Toggle(loading, pending) == IF pending THEN ~loading ELSE loading

\* variant: the setLoading(false) of the load is lost
applyLoading_Lost(loading, pending) == loading

\* the isLoading hook: its initial value and the only update it ever gets
InitialLoading == TRUE
applyLoading(loading, pending) == IF pending THEN FALSE ELSE loading

\* the gate of the render
renderOutput(loading) == IF loading THEN "loadingUI" ELSE "children"

\* dependencies of the load effect: [initialState, storageKey].  freshInitial
\* says the initialState of this render is another object than the last one's.
effectDepsChanged(oldProps, newProps, freshInitial) ==
  freshInitial \/ newProps.storageKey # oldProps.storageKey

\* dependencies of useCallback: [persistedKeys, storageKey], compared by
\* identity.  A persistedKeys prop left out defaults to a new [] at every
\* render; a parent that passes the prop passes the same array again.
useCallbackDepsChanged(oldProps, newProps) ==
  \/ newProps.persistedKeysOmitted
  \/ newProps.persistedKeys # oldProps.persistedKeys
  \/ newProps.storageKey # oldProps.storageKey

\* useMemo(() => [globalState, setGlobalState], [globalState, setGlobalState]):
\* what a render keeps of the previous render's objects.  The state object
\* is replaced whenever an update was applied (the updater returns a new
\* object); prevReady says the previous render returned the children.
hookIdentities(c, newProps) ==
  LET stateKept  == c.queue = <<>>
      setterKept == ~useCallbackDepsChanged(c.props, newProps)
  IN IF c.memo = Unobserved THEN Unobserved ELSE
     [ prevReady      |-> c.rendered = "children",
       globalState    |-> IF stateKept THEN "kept" ELSE "new",
       setGlobalState |-> IF setterKept THEN "kept" ELSE "new",
       contextValue   |-> IF stateKept /\ setterKept THEN "kept" ELSE "new" ]

\* One render of GlobalStoreProvider with newProps, and the effect it schedules.
render(c, newProps, freshInitial) ==
  LET loading == applyLoading(c.isLoading, c.pendingLoading)
      runLoad == effectDepsChanged(c.props, newProps, freshInitial)
  IN Bind(processQueue(c.globalState, c.queue),
          LAMBDA r :
            [c EXCEPT
               !.memo           = hookIdentities(c, newProps),
               !.props          = newProps,
               !.globalState    = r.state,
               !.isLoading      = loading,
               !.queue          = <<>>,
               !.pendingLoading = FALSE,
               !.rendered       = renderOutput(loading),
               !.writes         = @ \o r.writes,
               !.cbLog          = @ \cup AsSet(r.callbacks),
               !.loads          = IF runLoad THEN @ + 1 ELSE @,
               !.reads          = IF runLoad
                                  THEN Append(@, [ id            |-> c.loads + 1,
                                                   initialState  |-> newProps.initialState,
                                                   storageKey    |-> newProps.storageKey,
                                                   persistedKeys |-> newProps.persistedKeys ])
                                  ELSE @ ])

\* ------------------------------------------------------ loadPersistedData
\* the catch block: log, fall back to the initial state
loadCatch(initialState, outcome) ==
  [ outcome |-> outcome, setGlobalState |-> <<initialState>>,
    setLoading |-> <<FALSE>>, logged |-> TRUE, thrown |-> FALSE ]

\* variant: a first run leaves the state empty
loadTry_FirstRunEmpty(text, initialState) ==
  IF text.kind = "null"
  THEN [ outcome |-> "empty", setGlobalState |-> <<EmptyObject>>,
         setLoading |-> <<FALSE>>, logged |-> FALSE, thrown |-> FALSE ]
  ELSE IF JSONparse(text).ok
  THEN [ outcome |-> "data",
         setGlobalState |-> << Merge(initialState, JSONparse(text).value) >>,
         setLoading |-> <<FALSE>>, logged |-> FALSE, thrown |-> FALSE ]
  ELSE loadCatch(initialState, "parse_error")

\* variant: JSON.parse outside the try, its exception escapes the load
loadTry_ParseUncaught(text, initialState) ==
  IF text.kind = "null"
  THEN [ outcome |-> "empty", setGlobalState |-> <<initialState>>,
         setLoading |-> <<FALSE>>, logged |-> FALSE, thrown |-> FALSE ]
  ELSE IF JSONparse(text).ok
  THEN [ outcome |-> "data",
         setGlobalState |-> << Merge(initialState, JSONparse(text).value) >>,
         setLoading |-> <<FALSE>>, logged |-> FALSE, thrown |-> FALSE ]
  ELSE [ outcome |-> "parse_error", setGlobalState |-> <<>>, setLoading |-> <<>>,
         logged |-> FALSE, thrown |-> TRUE ]

\* the try block once getItem resolved with text
loadTry(text, initialState) ==
  IF text.kind = "null"
  THEN [ outcome |-> "empty", setGlobalState |-> <<initialState>>,
         setLoading |-> <<FALSE>>, logged |-> FALSE, thrown |-> FALSE ]
  ELSE LET parsedData == JSONparse(text)
       IN IF parsedData.ok
          THEN [ outcome |-> "data",
                 setGlobalState |-> << Merge(initialState, parsedData.value) >>,
                 setLoading |-> <<FALSE>>, logged |-> FALSE, thrown |-> FALSE ]
          ELSE loadCatch(initialState, "parse_error")

\* variant: initial state spread over the persisted data
loadPersistedData_InitialWins(result, initialState) ==
  LET lp == IF result.error THEN loadCatch(initialState, "error")
            ELSE loadTry(result.text, initialState)
  IN IF lp.outcome = "data"
     THEN [lp EXCEPT !.setGlobalState =
                       << Merge(JSONparse(result.text).value, initialState) >>]
     ELSE lp

\* variant: a failed read is logged and nothing else happens
loadPersistedData_LogOnly(result, initialState) ==
  IF result.error
  THEN [ outcome |-> "error", setGlobalState |-> <<>>, setLoading |-> <<>>,
         logged |-> TRUE, thrown |-> FALSE ]
  ELSE loadTry(result.text, initialState)

\* The continuation of loadPersistedData after getItem settled: the partial
\* states it hands to setGlobalState, the setLoading calls of its finally,
\* and what it logs.  result is [error, text].
loadPersistedData(result, initialState) ==
  IF result.error THEN loadCatch(initialState, "error")
  ELSE loadTry(result.text, initialState)

\* The render a newly mounted provider is Ready with, once its getItem has
\* resolved with text: mount, loadPersistedData, the render of its updates.
freshMount(text, mountProps) ==
  LET lp == loadPersistedData([error |-> FALSE, text |-> text], mountProps.initialState)
      c0 == [ props |-> mountProps, globalState |-> EmptyObject,
              isLoading |-> InitialLoading, queue |-> <<>>, pendingLoading |-> FALSE,
              rendered |-> renderOutput(InitialLoading), reads |-> <<>>,
              writes |-> <<>>, loads |-> 1, cbLog |-> {}, memo |-> NoRender ]
      c1 == setGlobalState(c0, lp.setGlobalState[1], FALSE, mountProps.persistedKeys,
                           mountProps.storageKey, FALSE, lp.setGlobalState[1])
      c2 == [c1 EXCEPT !.pendingLoading = lp.setLoading # <<>>]
  IN render(c2, mountProps, FALSE)

\* ---------------------------------------------------------------- connect
\* the function the provider hands out as setGlobalState
ProviderSetter == "GlobalStoreProvider.setGlobalState"
\* the value of the context while the children are rendered
contextValue == <<globalState, ProviderSetter>>
\* props a parent may pass to a connected component
OwnPropsChoices ==
  { EmptyObject,
    ("title" :> "t"),
    ("a" :> "own" @@ "title" :> "t"),
    ("setGlobalState" :> "own" @@ "b" :> "own" @@ "title" :> "t") }

\* variant: the parent's props spread last
ConnectedComponent_OwnPropsLast(ownProps, context) ==
  Merge(Merge(context[1], "setGlobalState" :> context[2]), ownProps)

\* ConnectedComponent.render: the props given to the wrapped component,
\* {...this.props} {...globalState} setGlobalState={setGlobalState}
ConnectedComponent(ownProps, context) ==
  Merge(Merge(ownProps, context[1]), "setGlobalState" :> context[2])

\* ---------------------------------------------------------------- actions
\* The bounds stop the environment (loads resolving, consumers calling), never
\* React: a step that leaves an update pending leaves room for the render of
\* that update, that is for the load effect it may run again and for the
\* setItem calls of the updaters it runs.
RoomToRender(c) ==
  LET deferred == { i \in DOMAIN c.queue : ~c.queue[i].hasEagerState }
  IN /\ Len(c.writes) + Cardinality(deferred) <= MaxInFlight
     /\ (c.props.initialStateOmitted /\ (c.queue # <<>> \/ c.pendingLoading))
          => c.loads + ncalls + 1 <= MaxUpdates

\* the next state of the component's own variables
Commit(c) ==
  /\ props' = c.props
  /\ globalState' = c.globalState
  /\ isLoading' = c.isLoading
  /\ queue' = c.queue
  /\ pendingLoading' = c.pendingLoading
  /\ rendered' = c.rendered
  /\ reads' = c.reads
  /\ writes' = c.writes
  /\ loads' = c.loads
  /\ cbLog' = c.cbLog
  /\ memo' = c.memo
  /\ latestWrite' = IF Len(c.writes) > Len(writes) THEN "inflight" ELSE latestWrite
  /\ c.loads + ncalls <= MaxUpdates
  /\ Len(c.writes) <= MaxInFlight
  /\ RoomToRender(c)

RemoveAt(seq, i) == SubSeq(seq, 1, i - 1) \o SubSeq(seq, i + 1, Len(seq))

NotResolved == [outcome |-> "pending", text |-> NoItem]

\* what the first render keeps: nothing, every object is new
FirstRender == [ prevReady |-> FALSE, globalState |-> "new", setGlobalState |-> "new",
                 contextValue |-> "new" ]

\* Mount: the first render (loadingUI) and the first run of the load effect.
\* An omitted initialState prop defaults to a new {} at every render.
Mount(firstMemo) ==
  /\ \E omitted \in BOOLEAN, init \in InitialStates, keys \in PersistedKeysChoices :
       /\ omitted => init = EmptyObject
       /\ props = [ initialState |-> init, initialStateOmitted |-> omitted,
                    persistedKeys |-> keys, persistedKeysOmitted |-> keys = <<>>,
                    storageKey |-> DefaultStorageKey ]
       /\ \E text \in StoredTexts :
            /\ storage = [k \in StorageKeys |-> text]
            /\ mount = [ initialState |-> init, persistedKeys |-> keys,
                         stored |-> text ]
       /\ reads = << [ id |-> 1, initialState |-> init,
                       storageKey |-> DefaultStorageKey, persistedKeys |-> keys ] >>
  /\ globalState = EmptyObject
  /\ isLoading = InitialLoading
  /\ rendered = renderOutput(InitialLoading)
  /\ queue = <<>>
  /\ pendingLoading = FALSE
  /\ writes = <<>>
  /\ loads = 1
  /\ resolved = {}
  /\ mountLoad = NotResolved
  /\ ncalls = 0
  /\ shadow = EmptyObject
  /\ consumerMerge = EmptyObject
  /\ cbLog = {}
  /\ memo = firstMemo
  /\ latestWrite = "none"
  /\ console = {}
  /\ failed = {}
  /\ uncaught = FALSE

Init == Mount(Unobserved)

\* The oldest getItem settles (rejected, or with the text now under the key;
\* AsyncStorage serves the reads of a key in issue order) and
\* loadPersistedData runs to its end.  Where updates made outside a React
\* event are not batched, the setter's update is rendered before the
\* finally block runs (syncRender).
LoadResolve ==
  \E i \in {1} \cap DOMAIN reads, fail \in BOOLEAN, eager \in BOOLEAN, syncRender \in BOOLEAN :
    LET r       == reads[i]
        result  == [error |-> fail, text |-> storage[r.storageKey]]
        lp      == loadPersistedData(result, r.initialState)
        called  == lp.setGlobalState # <<>>
        shadow1 == IF called THEN Merge(shadow, lp.setGlobalState[1]) ELSE shadow
        c0      == [Component EXCEPT !.reads = RemoveAt(@, i)]
        c1      == IF called
                   THEN setGlobalState(c0, lp.setGlobalState[1], FALSE, r.persistedKeys,
                                       r.storageKey, eager, shadow1)
                   ELSE c0
        c2      == IF syncRender
                   THEN render(c1, c1.props, c1.props.initialStateOmitted)
                   ELSE c1
        c3      == [c2 EXCEPT !.pendingLoading = @ \/ lp.setLoading # <<>>]
    IN /\ eager => (called /\ CanBeEager(c0))
       /\ syncRender => called
       /\ \E c \in {c3} : Commit(c)
       /\ resolved' = resolved \cup {r.id}
       /\ mountLoad' = IF r.id = 1 THEN [outcome |-> lp.outcome, text |-> result.text]
                       ELSE mountLoad
       /\ shadow' = shadow1
       /\ console' = IF lp.logged THEN console \cup {RehydrationFailedMessage}
                     ELSE console
       /\ failed' = failed \cup (IF lp.outcome = "error" THEN {"read"}
                                 ELSE IF lp.outcome = "parse_error" THEN {"parse"}
                                 ELSE {})
       /\ uncaught' = (uncaught \/ lp.thrown)
       /\ UNCHANGED << storage, mount, ncalls, consumerMerge >>

\* A consumer (useGlobalStore or a connected component) calls the setter of
\* the latest render.  Consumers exist only while children are rendered.
ConsumerSetGlobalState ==
  \E call \in ConsumerCallChoices, eager \in BOOLEAN :
    /\ rendered = "children"
    /\ loads + ncalls + (IF props.initialStateOmitted THEN 1 ELSE 0) < MaxUpdates
    /\ eager => CanBeEager(Component)
    /\ \E c \in { setGlobalState(Component, call.partialState, call.callback,
                                   props.persistedKeys, props.storageKey, eager,
                                   Merge(shadow, call.partialState)) } : Commit(c)
    /\ ncalls' = ncalls + 1
    /\ shadow' = Merge(shadow, call.partialState)
    /\ consumerMerge' = Merge(consumerMerge, call.partialState)
    /\ UNCHANGED << storage, mount, resolved, mountLoad, console, failed, uncaught >>

\* React re-renders the provider for its pending state updates.
Render ==
  /\ queue # <<>> \/ pendingLoading
  /\ \E c \in { render(Component, props, props.initialStateOmitted) } : Commit(c)
  /\ UNCHANGED << storage, mount, resolved, mountLoad, ncalls, shadow, consumerMerge,
                  console, failed, uncaught >>

\* The parent re-renders the provider: it passes the same initialState
\* object again, or another object (keep = FALSE), and a storageKey.
ParentRender ==
  \E keep \in BOOLEAN, init \in InitialStates, key \in StorageKeys :
    LET newProps == [props EXCEPT !.initialState = init, !.storageKey = key]
    IN /\ props.initialStateOmitted => (init = EmptyObject /\ ~keep)
       /\ keep => init = props.initialState
       /\ \E c \in { render(Component, newProps, ~keep) } : Commit(c)
       /\ UNCHANGED << storage, mount, resolved, mountLoad, ncalls, shadow,
                       consumerMerge, console, failed, uncaught >>

\* variant: a setItem settles only after the ones issued before it
completable_Serialized(inFlight) == {1} \cap DOMAIN inFlight

\* The setItem calls that may settle next: persistData is not awaited by the
\* updater and nothing chains one call to another, so any of them.
completable(inFlight) == DOMAIN inFlight

\* what became of the most recently issued setItem (the last of writes while
\* it is in flight) when the i-th call in flight settles
settleLatest(latest, i, n, ok) ==
  IF i = n /\ latest = "inflight" THEN (IF ok THEN "stored" ELSE "rejected")
  ELSE IF ok /\ latest = "stored" THEN "overwritten"
  ELSE latest

\* The i-th setItem in flight settles: stored, or rejected and logged.
WriteSettles(i, ok) ==
  LET w   == writes[i]
      log == IF ok THEN [console |-> console, uncaught |-> uncaught]
             ELSE persistCatch([console |-> console, uncaught |-> uncaught])
  IN /\ i \in completable(writes)
     /\ writes' = RemoveAt(writes, i)
     /\ storage' = IF ok THEN [storage EXCEPT ![w.storageKey] = w.payload] ELSE storage
     /\ latestWrite' = settleLatest(latestWrite, i, Len(writes), ok)
     /\ console' = log.console
     /\ uncaught' = log.uncaught
     /\ failed' = IF ok THEN failed ELSE failed \cup {"write"}
     /\ cbLog' = {}
     /\ memo' = Idle(memo)
     /\ UNCHANGED << props, globalState, isLoading, queue, pendingLoading, rendered,
                     reads, loads, mount, resolved, mountLoad, ncalls, shadow,
                     consumerMerge >>

\* A setItem settles, in any order.
WriteComplete ==
  \E i \in DOMAIN writes, ok \in BOOLEAN : WriteSettles(i, ok)

Next ==
  \/ LoadResolve
  \/ ConsumerSetGlobalState
  \/ Render
  \/ ParentRender
  \/ WriteComplete

Spec == Init /\ [][Next]_vars

\* The same program, with the identities of the hooks' objects followed from
\* render to render.
IdentityInit == Mount(FirstRender)
IdentitySpec == IdentityInit /\ [][Next]_vars

\* React renders a component that has a pending state update: the scheduler
\* runs every render it scheduled.  Nothing is assumed of AsyncStorage.
FairSpec == Spec /\ WF_vars(Render)

\* ----------------------------------------------------------------- claims
\* the component shows the result of every update made so far
Settled == queue = <<>> /\ ~pendingLoading
\* only the load of the mount has called the setter
OnlyMountLoad == resolved = {1} /\ ncalls = 0

\* C1 (as claimed): after a load that found no persisted data, the state
\* consumers see is initialState merged with the consumers' partial states
\* in call order, whatever re-renders of the parent happened in between.
\* (Stated for a parent that passes initialState {a: 1, b: 2}.)
C1_StateIsMergeOfCalls ==
  ( /\ mountLoad.outcome = "empty" /\ Settled
    /\ mount.initialState = ("a" :> "1" @@ "b" :> "2")
    /\ props.initialState = mount.initialState )
    => globalState = Merge(mount.initialState, consumerMerge)

\* C2 (as claimed): the load step runs once per mount, so a single getItem
\* is ever issued.
C2_LoadRunsOnce == loads = 1

\* C3: while no load has resolved the provider renders loadingUI and no
\* consumer has called the setter.
C3_FallbackUntilLoadResolves ==
  (resolved = {}) => (rendered = "loadingUI" /\ isLoading /\ ncalls = 0)

C3_Witness == resolved = {} /\ loads >= 2 /\ rendered = "loadingUI"

\* C4: once the load of the mount has resolved with persisted data D and is
\* rendered, the state has the keys of initialState and D, D's value on each
\* key of D and initialState's value on the others.
C4_PersistedWinsOverInitial ==
  (mountLoad.outcome = "data" /\ OnlyMountLoad /\ Settled)
    => LET D == FromEntries(mountLoad.text.pairs)
       IN /\ ~isLoading
          /\ DOMAIN globalState = DOMAIN mount.initialState \cup DOMAIN D
          /\ \A k \in DOMAIN D : globalState[k] = D[k]
          /\ \A k \in DOMAIN mount.initialState \ DOMAIN D :
               globalState[k] = mount.initialState[k]

C4_Witness ==
  /\ mountLoad.outcome = "data" /\ OnlyMountLoad /\ Settled
  /\ mount.initialState = ("a" :> "1" @@ "b" :> "2")
  /\ globalState = ("a" :> "5" @@ "b" :> "2")

\* C5: every setItem call issued carries the JSON text of the merged
\* snapshot of its setter call restricted to the whitelisted keys the
\* snapshot has: no other key, no key the snapshot lacks, each key once.
C5_PayloadIsWhitelistedSubset ==
  \A i \in DOMAIN writes :
    LET w     == writes[i]
        keys  == {w.whitelist[j] : j \in DOMAIN w.whitelist} \cap DOMAIN w.expect
        pairs == w.payload.pairs
    IN /\ w.payload.kind = "json"
       /\ w.whitelist # <<>>
       /\ \A j \in DOMAIN pairs :
            /\ pairs[j][1] \in keys
            /\ pairs[j][2] = w.expect[pairs[j][1]]
            /\ \A l \in DOMAIN pairs : pairs[l][1] = pairs[j][1] => l = j
       /\ \A k \in keys :
            w.expect[k] # Undefined => \E j \in DOMAIN pairs : pairs[j][1] = k

C5_Witness ==
  \E i \in DOMAIN writes :
    /\ writes[i].whitelist = <<"a", "c">>
    /\ DOMAIN writes[i].expect = {"a", "b"}
    /\ writes[i].payload = JSONText(<< <<"a", "2">> >>)

\* C6: with an empty persistedKeys no setItem call is ever issued and the
\* stored text stays what it was at mount.
C6_NoWriteWithoutWhitelist ==
  (mount.persistedKeys = <<>>)
    => (writes = <<>> /\ storage[DefaultStorageKey] = mount.stored)

C6_Witness ==
  /\ mount.persistedKeys = <<>>
  /\ ncalls >= 1 /\ Settled
  /\ "a" \in DOMAIN globalState

\* C7: a failed read of the mount is logged and escapes no handler; once
\* rendered the state is initialState and the children are rendered.
C7_ReadErrorFallsBack ==
  /\ (mountLoad.outcome = "error")
       => (RehydrationFailedMessage \in console /\ ~uncaught)
  /\ (mountLoad.outcome = "error" /\ OnlyMountLoad /\ Settled)
       => ( /\ globalState = mount.initialState
            /\ ~isLoading
            /\ rendered = "children" )

C7_Witness ==
  /\ mountLoad.outcome = "error" /\ OnlyMountLoad /\ Settled
  /\ mount.initialState = ("a" :> "1" @@ "b" :> "2")
  /\ rendered = "children"

\* C8: once a load has resolved and is rendered the provider is not loading,
\* and it never goes back: isLoading never turns true again and children,
\* once rendered, stay rendered.
C8_LoadingToReadyOneWay ==
  /\ []((resolved # {} /\ Settled) => (~isLoading /\ rendered = "children"))
  /\ [][ /\ ~isLoading => ~isLoading'
         /\ rendered = "children" => rendered' = "children" ]_vars

C8_Witness ==
  /\ ~isLoading /\ rendered = "children"
  /\ loads >= 2 /\ resolved = {1, 2} /\ ncalls >= 1 /\ Settled

\* C9 (as claimed, for the calls made while another update is pending):
\* the callback runs inside its setter call and gets the full merged snapshot.
C9_CallbackSynchronous ==
  \A cb \in cbLog : cb.batched => (cb.sync /\ cb.arg = cb.expect)

\* C9 (amended): every callback gets the full merged snapshot of its call;
\* one that did not run inside its setter call runs in the render that
\* applies the pending updates.
C9_CallbackGetsFullSnapshot ==
  \A cb \in cbLog :
    /\ cb.arg = cb.expect
    /\ cb.batched => ~cb.sync
    /\ ~cb.sync => queue = <<>>

C9_Witness ==
  \E cb \in cbLog :
    cb.batched /\ ~cb.sync /\ cb.arg = cb.expect /\ "b" \in DOMAIN cb.arg

\* C10: a failed setItem is logged and escapes no handler; the step changes
\* neither the state, the pending updates nor what is rendered, and the
\* state keeps being the merge of all the partial states given to the setter.
C10_WriteFailureIsContained ==
  /\ []( ("write" \in failed) => (PersistErrorMessage \in console /\ ~uncaught) )
  /\ []( ("write" \in failed /\ queue = <<>>) => globalState = shadow )
  /\ [][ ("write" \notin failed /\ "write" \in failed')
           => UNCHANGED << globalState, queue, isLoading, pendingLoading, rendered >>
       ]_vars

C10_Witness ==
  /\ "write" \in failed
  /\ \E cb \in cbLog : cb.sync /\ cb.arg = shadow
  /\ rendered = "children"

\* C11: once the load of the mount has resolved with no stored text and is
\* rendered, the state is initialState: the same keys, the same values.
C11_FirstRunAdoptsInitialState ==
  (mountLoad.outcome = "empty" /\ OnlyMountLoad /\ Settled)
    => ( /\ ~isLoading
         /\ DOMAIN globalState = DOMAIN mount.initialState
         /\ \A k \in DOMAIN mount.initialState :
              globalState[k] = mount.initialState[k] )

C11_Witness ==
  /\ mountLoad.outcome = "empty" /\ OnlyMountLoad /\ Settled
  /\ mount.stored = NoItem
  /\ globalState = ("a" :> "1" @@ "b" :> "2")

\* C17: stored text that JSON.parse rejects is handled as a failed read is:
\* the load makes the same calls and logs the same message, and once it is
\* rendered the state is initialState and the children are rendered.
C17_ParseFailureIsReadError ==
  (mountLoad.outcome = "parse_error" /\ OnlyMountLoad /\ Settled)
    => LET parsed == loadPersistedData([error |-> FALSE, text |-> mountLoad.text],
                                       mount.initialState)
           failedRead == loadPersistedData([error |-> TRUE, text |-> mountLoad.text],
                                           mount.initialState)
       IN /\ parsed = [failedRead EXCEPT !.outcome = "parse_error"]
          /\ RehydrationFailedMessage \in console
          /\ ~uncaught
          /\ globalState = mount.initialState
          /\ ~isLoading
          /\ rendered = "children"

C17_Witness ==
  /\ mountLoad.outcome = "parse_error" /\ OnlyMountLoad /\ Settled
  /\ mountLoad.text = Malformed
  /\ "parse" \in failed /\ "read" \notin failed
  /\ globalState = ("a" :> "1" @@ "b" :> "2")
  /\ rendered = "children"

\* the keys of the whitelist that are in a state
Whitelisted(state, persistedKeys) == AsSet(persistedKeys) \cap DOMAIN state
\* the text setItem is given for a state
PayloadOf(state, persistedKeys) == JSONstringify(dataToPersist(state, persistedKeys))

\* C12 (as claimed): every prop the parent passes reaches the wrapped
\* component unchanged, also one named like a state key or setGlobalState.
C12_OwnPropsReachUnchanged ==
  (rendered = "children")
    => \A ownProps \in OwnPropsChoices :
         \A k \in DOMAIN ownProps :
           ConnectedComponent(ownProps, contextValue)[k] = ownProps[k]

\* C12: the wrapped component gets every state key with the state's value,
\* setGlobalState bound to the provider's setter, and unchanged every prop of
\* the parent that is named neither like a state key nor setGlobalState.
C12_StateOverridesOwnProps ==
  (rendered = "children")
    => \A ownProps \in OwnPropsChoices :
         LET given == ConnectedComponent(ownProps, contextValue)
         IN /\ DOMAIN given =
                 DOMAIN ownProps \cup DOMAIN globalState \cup {"setGlobalState"}
            /\ \A k \in DOMAIN globalState \ {"setGlobalState"} :
                 given[k] = globalState[k]
            /\ given["setGlobalState"] = ProviderSetter
            /\ \A k \in DOMAIN ownProps \ (DOMAIN globalState \cup {"setGlobalState"}) :
                 given[k] = ownProps[k]

C12_Witness ==
  /\ rendered = "children"
  /\ "a" \in DOMAIN globalState
  /\ \E ownProps \in OwnPropsChoices :
       LET given == ConnectedComponent(ownProps, contextValue)
       IN /\ "a" \in DOMAIN ownProps /\ given["a"] = globalState["a"]
          /\ given["a"] # ownProps["a"]
          /\ given["title"] = ownProps["title"]

\* C13: the setItem calls in flight are not serialized: whichever of them
\* settles next, the text under storageKey becomes its payload.
C13_LastWriteToLandWins ==
  \A i \in DOMAIN writes :
    ENABLED ( /\ WriteSettles(i, TRUE)
              /\ storage' = [storage EXCEPT ![writes[i].storageKey] = writes[i].payload] )

\* every write has settled, the last to land was issued by an earlier call,
\* and the stored text is not the whitelisted subset of the state
C13_Witness ==
  /\ writes = <<>> /\ Settled /\ "write" \notin failed
  /\ latestWrite = "overwritten"
  /\ storage[props.storageKey] # PayloadOf(globalState, props.persistedKeys)

\* C14 (as claimed): a render of a Ready provider that leaves the state as
\* it was, with the same persistedKeys and storageKey configuration, keeps
\* the identity of setGlobalState and of the [state, setGlobalState] pair.
C14_PairIdentityStable ==
  (memo.prevReady /\ rendered = "children" /\ memo.globalState = "kept")
    => (memo.setGlobalState = "kept" /\ memo.contextValue = "kept")

\* C15: once the load of the mount has resolved, whatever its outcome, the
\* provider eventually renders its children; as long as no load has
\* resolved it renders loadingUI.
C15_ResolvedLeadsToReady ==
  /\ (1 \in resolved) ~> (~isLoading /\ rendered = "children")
  /\ [](resolved = {} => (isLoading /\ rendered = "loadingUI"))

C15_Witness ==
  /\ mountLoad.outcome = "error" /\ resolved = {1}
  /\ ~isLoading /\ rendered = "children"

\* C16 (as claimed): with a whitelist, the load of the mount has issued a
\* setItem by the time it is rendered.
C16_EveryLoadWrites ==
  (OnlyMountLoad /\ Settled /\ mount.persistedKeys # <<>>) => latestWrite # "none"

\* C16: when the state loaded at the mount has a whitelisted key, the load has
\* issued one setItem with the whitelisted subset of that state by the time
\* the children are rendered: it is in flight, stored in place of the text
\* that was there, or rejected.
C16_LoadPersistsLoadedState ==
  LET result == [error |-> mountLoad.outcome = "error", text |-> mountLoad.text]
      loaded == loadPersistedData(result, mount.initialState).setGlobalState[1]
      key    == DefaultStorageKey
  IN /\ ( /\ 1 \in resolved /\ rendered = "children"
          /\ Whitelisted(loaded, mount.persistedKeys) # {} )
       => latestWrite # "none"
     /\ ( /\ OnlyMountLoad /\ Settled
          /\ Whitelisted(globalState, mount.persistedKeys) # {} )
       => /\ globalState = loaded
          /\ latestWrite \in {"inflight", "stored", "rejected"}
          /\ latestWrite = "inflight"
               => /\ Len(writes) = 1
                  /\ writes[1].storageKey = key
                  /\ writes[1].payload = PayloadOf(loaded, mount.persistedKeys)
          /\ latestWrite = "stored"
               => /\ writes = <<>>
                  /\ storage[key] = PayloadOf(loaded, mount.persistedKeys)
          /\ latestWrite = "rejected" => (writes = <<>> /\ storage[key] = mount.stored)

\* a failed read, and initialState's subset stored over the persisted text
C16_Witness ==
  /\ mountLoad.outcome = "error" /\ OnlyMountLoad /\ Settled
  /\ mount.stored = JSONText(<< <<"a", "5">> >>)
  /\ latestWrite = "stored"
  /\ storage[DefaultStorageKey] = JSONText(<< <<"a", "1">> >>)

\* reading a property: undefined when the object has no such key
Get(obj, k) == IF k \in DOMAIN obj THEN obj[k] ELSE Undefined

\* C18 (as claimed): when every write of a provider with a whitelist has
\* been stored and the last one issued landed last, a new mount with the same
\* props that reads the stored text is Ready with a state that reads as S on
\* every whitelisted key of S and as initialState on every other key.
C18_RoundTrip ==
  ( /\ Settled /\ rendered = "children" /\ writes = <<>>
    /\ props.persistedKeys # <<>> /\ props.initialState = mount.initialState
    /\ latestWrite = "stored" /\ failed = {} )
    => LET S     == globalState
           again == freshMount(storage[props.storageKey], props)
           kept  == Whitelisted(S, props.persistedKeys)
       IN /\ again.rendered = "children"
          /\ \A k \in kept : Get(again.globalState, k) = S[k]
          /\ \A k \in AsSet(KeyOrder) \ kept :
               Get(again.globalState, k) = Get(props.initialState, k)

====
